---- MODULE Spec2Model ----
(***************************************************************************)
(* Call Manager: the automatic caller-assignment engine                    *)
(* (CronJobManager.performAutoAssignment), the manual assignment path      *)
(* (AdminController.assignCallers) and the commit primitive they share     *)
(* (Caller.assignToEmployee), over the MySQL tables users, callers and     *)
(* caller_assignment_log.                                                  *)
(*                                                                         *)
(* One action is one store operation (one awaited query) together with the *)
(* synchronous JavaScript that follows it up to the next await: the code   *)
(* between two awaits touches only the locals of its own invocation.       *)
(***************************************************************************)
EXTENDS Integers, Sequences, FiniteSets, TLC

\* ------------------------------------------------------------ constants
\* getUnassignedCallers(100) and slice(callerIndex, callerIndex + 100)
BatchLimit == 100
\* "Super admin ID for system assignment"
SystemActor == 1
\* WHERE u.role_id = 2
EmployeeRoleId == 2
\* SQL NULL of callers.assigned_to / callers.assigned_at
NULL == 0

\* --------------------------------------------------------------- bounds
\* store faults (a rejected pool.execute) injected per behaviour
MaxFaults == 1
\* caller rows of the concurrent specification
ConcCallers == 2
\* largest small backlog of the sequential specification
SeqCallers == 5
\* the large backlog of the sequential specification (above BatchLimit)
BigCallers == 150
\* active callers an employee may already hold in an initial state
MaxLoad == 2
\* caller rows of the specification with the other operations
OpsCallers == 2
\* calls made on the CronJobManager per behaviour
MaxCalls == 3
\* the backlog of the overlapping runs of SpecStale: two batches
StaleCallers == 200
\* caller rows under the running scheduler of SpecProgress
ProgCallers == 2

\* ------------------------------------------------------------ processes
\* invocations of performAutoAssignment (a cron firing or a manual trigger)
Runs == {"run1", "run2"}
\* invocations of assignCallers (an admin HTTP request)
Manuals == {"admin"}
\* invocations of the employee's markCallerAsCalled / updateCaller (an HTTP request)
Requests == {"employee"}
\* a deletion: deleteUser (an admin HTTP request) or Caller.delete
Deletions == {"deletion"}
\* invocations of performHealthCheck (a cron firing)
Probes == {"probe1"}
\* invocations of triggerAutoAssignment / triggerHealthCheck (an admin HTTP request)
Triggers == {"trigger"}
\* invocations of performHealthCheck by triggerHealthCheck
TriggeredProbes == {"probe2"}
Procs ==
  Runs \cup Manuals \cup Requests \cup Deletions \cup Probes \cup Triggers \cup TriggeredProbes

VARIABLES
  users,     \* table users:   id -> [role_id, name]
  callers,   \* table callers: id -> [assigned_to, assigned_at, status, created_at, writer]
  log,       \* table caller_assignment_log, in insertion order
  now,       \* the store's clock, read by NOW()
  faults,    \* store faults still to be injected
  proc,      \* the locals of every invocation
  jobs,      \* CronJobManager.jobs: job name -> the task cron.schedule returned
  isRunning, \* CronJobManager.isRunning
  tasks,     \* the node-cron tasks created so far: [name, running]
  calls      \* the calls made on the CronJobManager, in order

\* the scheduler's part of the state
sched == <<jobs, isRunning, tasks, calls>>

vars == <<users, callers, log, now, faults, proc, jobs, isRunning, tasks, calls>>

\* The identity of one assignToEmployee call: <<invocation, ordinal>>.
NoCall == <<"none", 0>>

Min(a, b) == IF a <= b THEN a ELSE b

\* Array.prototype.slice(start, end) on a 0-indexed array
Slice(s, start, end) == SubSeq(s, start + 1, Min(end, Len(s)))

\* ------------------------------------------------------------- queries
\* the largest id of the table (ids are AUTO_INCREMENT, never reused)
MaxId(cs) ==
  IF DOMAIN cs = {} THEN 0 ELSE CHOOSE m \in DOMAIN cs : \A d \in DOMAIN cs : d <= m

\* variant of OrderByCreatedAt: ORDER BY c.created_at DESC
OrderByCreatedAtDesc(S, cs) ==
  SortSeq(SelectSeq([i \in 1..MaxId(cs) |-> i], LAMBDA c : c \in S),
          LAMBDA a, b : cs[a].created_at > cs[b].created_at)

\* ORDER BY c.created_at ASC over the rows S; rows of equal created_at stay
\* in primary-key order
OrderByCreatedAt(S, cs) ==
  SortSeq(SelectSeq([i \in 1..MaxId(cs) |-> i], LAMBDA c : c \in S),
          LAMBDA a, b : cs[a].created_at < cs[b].created_at)

\* variant of GetUnassignedCallers: the WHERE clause lacks c.assigned_to IS NULL
GetUnassignedCallersAnyOwner(cs, limit) ==
  LET S == {c \in DOMAIN cs : cs[c].status = "active"}
  IN  SubSeq(SortSeq(SelectSeq([i \in 1..MaxId(cs) |-> i], LAMBDA c : c \in S),
                     LAMBDA a, b : cs[a].created_at < cs[b].created_at),
             1, Min(limit, Cardinality(S)))

\* variant of GetUnassignedCallers: the query has no LIMIT clause
GetUnassignedCallersNoLimit(cs, limit) ==
  LET S == {c \in DOMAIN cs : cs[c].assigned_to = NULL /\ cs[c].status = "active"}
  IN  SortSeq(SelectSeq([i \in 1..MaxId(cs) |-> i], LAMBDA c : c \in S),
              LAMBDA a, b : cs[a].created_at < cs[b].created_at)

\* SELECT ... WHERE c.assigned_to IS NULL AND c.status = 'active'
\*        ORDER BY c.created_at ASC LIMIT ?
GetUnassignedCallers(cs, limit) ==
  LET S == {c \in DOMAIN cs : cs[c].assigned_to = NULL /\ cs[c].status = "active"}
  IN  Slice(OrderByCreatedAt(S, cs), 0, limit)

\* COUNT(c.id) over LEFT JOIN callers c ON u.id = c.assigned_to AND c.status = 'active'
CallerCount(cs, e) ==
  Cardinality({c \in DOMAIN cs : cs[c].assigned_to = e /\ cs[c].status = "active"})

\* variant of EmployeeBefore: ORDER BY caller_count ASC, u.id ASC
EmployeeBeforeById(a, b) ==
  \/ a.caller_count < b.caller_count
  \/ a.caller_count = b.caller_count /\ a.id <= b.id

\* ORDER BY caller_count ASC, u.name ASC
EmployeeBefore(a, b) ==
  \/ a.caller_count < b.caller_count
  \/ a.caller_count = b.caller_count /\ a.name <= b.name

RECURSIVE OrderByCountName(_)
OrderByCountName(S) ==
  IF S = {} THEN <<>>
  ELSE LET e == CHOOSE x \in S : \A y \in S : EmployeeBefore(x, y)
       IN  <<e>> \o OrderByCountName(S \ {e})

\* SELECT u.id, u.name, COUNT(c.id) AS caller_count ... WHERE u.role_id = 2
\*        GROUP BY u.id ... ORDER BY caller_count ASC, u.name ASC
GetEmployeesWithCallerCount(us, cs) ==
  OrderByCountName({[id |-> u, name |-> us[u].name, caller_count |-> CallerCount(cs, u)]
                      : u \in {x \in DOMAIN us : us[x].role_id = EmployeeRoleId}})

\* ------------------------------------------------- invocation locals
IdleProc ==
  [pc |-> "idle", method |-> "none", assignedBy |-> NULL,
   employees |-> <<>>, unassignedCallers |-> <<>>, ei |-> 0, callerIndex |-> 0,
   callersToAssign |-> <<>>, k |-> 0, employee_id |-> NULL,
   updateData |-> "none",
   assignedCount |-> 0, result |-> "none",
   pre |-> [assigned_to |-> NULL, assigned_at |-> NULL, logged |-> 0],
   attempts |-> <<>>,
   awaits |-> "none"]

\* the store operations of assignToEmployee, in order
CallPcs == {"findById", "update", "insert", "refind"}
\* the read phase of performAutoAssignment
ReadPcs == {"getEmployees", "getUnassigned"}

\* the caller the invocation's current assignToEmployee call is about
CurCaller(r) == r.callersToAssign[r.k]

CallId(p, r) == <<p, Len(r.attempts) + 1>>

\* what a reader sees of caller c: its assignment and its log entries
Snapshot(cs, lg, c) ==
  [assigned_to |-> IF c \in DOMAIN cs THEN cs[c].assigned_to ELSE NULL,
   assigned_at |-> IF c \in DOMAIN cs THEN cs[c].assigned_at ELSE NULL,
   logged      |-> Cardinality({i \in DOMAIN lg : lg[i].caller_id = c})]

\* return / logger.cron(...) / the outer catch of performAutoAssignment
Finish(r, res) == [r EXCEPT !.pc = "done", !.result = res]

\* variant of Qualifies: the idle test is missing
QualifiesAny(employee) == employee.caller_count >= 0

\* variant of Qualifies: the load is read again when the employee's turn comes
QualifiesNow(employee) == CallerCount(callers, employee.id) = 0

\* variant of Qualifies: the test is inverted, loaded employees are served
QualifiesLoaded(employee) == employee.caller_count > 0

\* if (employee.caller_count === 0)
Qualifies(employee) == employee.caller_count = 0

\* for (const employee of employees) { ... }, resumed at employee i
RECURSIVE NextEmployee(_, _)
NextEmployee(r, i) ==
  IF i > Len(r.employees) THEN Finish(r, "completed")
  ELSE IF r.callerIndex >= Len(r.unassignedCallers) THEN Finish(r, "completed")
  ELSE IF Qualifies(r.employees[i])
       THEN [r EXCEPT !.ei = i,
                      !.callersToAssign =
                         Slice(r.unassignedCallers, r.callerIndex, r.callerIndex + BatchLimit),
                      !.k = 1,
                      !.employee_id = r.employees[i].id,
                      !.pc = "findById"]
       ELSE NextEmployee(r, i + 1)

\* for (const caller of callersToAssign) { ... } callerIndex += callersToAssign.length
AfterCallAuto(r) ==
  IF r.k < Len(r.callersToAssign)
  THEN [r EXCEPT !.k = r.k + 1, !.pc = "findById"]
  ELSE NextEmployee([r EXCEPT !.callerIndex = r.callerIndex + Len(r.callersToAssign)],
                    r.ei + 1)

\* for (const callerId of caller_ids) { ... } res.json({success: true, ...})
AfterCallManual(r) ==
  IF r.k < Len(r.callersToAssign)
  THEN [r EXCEPT !.k = r.k + 1, !.pc = "findById"]
  ELSE Finish(r, "completed")

\* variant of EndCall: no try/catch around the call, so a failed call reaches
\* the outer catch of performAutoAssignment and ends the run
EndCallAbort(r, outcome, pre, cs, lg) ==
  LET att == [callerId |-> CurCaller(r), employeeId |-> r.employee_id,
              outcome |-> outcome, at |-> r.pc, pre |-> pre,
              post |-> Snapshot(cs, lg, CurCaller(r))]
      r1  == [r EXCEPT !.attempts = Append(@, att),
                       !.assignedCount = IF outcome = "ok" THEN @ + 1 ELSE @]
  IN  IF outcome # "ok" THEN Finish(r1, "error")
      ELSE IF r.method = "auto" THEN AfterCallAuto(r1) ELSE AfterCallManual(r1)

\* try { await Caller.assignToEmployee(...); assignedCount++ } catch { logger.error }
EndCall(r, outcome, pre, cs, lg) ==
  LET att == [callerId |-> CurCaller(r), employeeId |-> r.employee_id,
              outcome |-> outcome, at |-> r.pc, pre |-> pre,
              post |-> Snapshot(cs, lg, CurCaller(r))]
      r1  == [r EXCEPT !.attempts = Append(@, att),
                       !.assignedCount = IF outcome = "ok" THEN @ + 1 ELSE @]
  IN  IF r.method = "auto" THEN AfterCallAuto(r1) ELSE AfterCallManual(r1)

\* -------------------------------------------------------------- actions
\* a cron firing, or triggerAutoAssignment: performAutoAssignment is entered
StartAutoAssignment(r) ==
  /\ proc[r].pc = "idle"
  /\ proc' = [proc EXCEPT ![r] = [IdleProc EXCEPT !.pc = "getEmployees",
                                                  !.method = "auto",
                                                  !.assignedBy = SystemActor]]
  /\ UNCHANGED <<users, callers, log, now, faults, sched>>

\* variant of GetEmployees: no early return on an empty employee list
GetEmployeesNoEarlyReturn(r) ==
  /\ proc[r].pc = "getEmployees"
  /\ LET employees == GetEmployeesWithCallerCount(users, callers)
     IN  proc' = [proc EXCEPT ![r] =
                    [@ EXCEPT !.employees = employees, !.pc = "getUnassigned"]]
  /\ UNCHANGED <<users, callers, log, now, faults, sched>>

\* const employees = await User.getEmployeesWithCallerCount()
GetEmployees(r) ==
  /\ proc[r].pc = "getEmployees"
  /\ LET employees == GetEmployeesWithCallerCount(users, callers)
     IN  proc' = [proc EXCEPT ![r] =
                    IF Len(employees) = 0
                    THEN Finish(@, "noEmployees")
                    ELSE [@ EXCEPT !.employees = employees, !.pc = "getUnassigned"]]
  /\ UNCHANGED <<users, callers, log, now, faults, sched>>

\* const unassignedCallers = await Caller.getUnassignedCallers(100)
GetUnassigned(r) ==
  /\ proc[r].pc = "getUnassigned"
  /\ LET unassignedCallers == GetUnassignedCallers(callers, BatchLimit)
     IN  proc' = [proc EXCEPT ![r] =
                    IF Len(unassignedCallers) = 0
                    THEN Finish(@, "noCallers")
                    ELSE NextEmployee([@ EXCEPT !.unassignedCallers = unassignedCallers,
                                                !.callerIndex = 0,
                                                !.assignedCount = 0], 1)]
  /\ UNCHANGED <<users, callers, log, now, faults, sched>>

\* assignCallers: the validated body {caller_ids, employee_id} of admin req.user.id
AssignCallers(m, caller_ids, employee_id, admin) ==
  /\ proc[m].pc = "idle"
  /\ Len(caller_ids) >= 1
  /\ proc' = [proc EXCEPT ![m] = [IdleProc EXCEPT !.pc = "findById",
                                                  !.method = "manual",
                                                  !.assignedBy = admin,
                                                  !.callersToAssign = caller_ids,
                                                  !.k = 1,
                                                  !.employee_id = employee_id]]
  /\ UNCHANGED <<users, callers, log, now, faults, sched>>

\* variant of FindById: the if (caller.assigned_to) test is missing
FindByIdNoConflictCheck(p) ==
  /\ proc[p].pc = "findById"
  /\ LET r   == proc[p]
         c   == CurCaller(r)
         pre == Snapshot(callers, log, c)
     IN  proc' = [proc EXCEPT ![p] =
                    IF c \notin DOMAIN callers THEN EndCall(r, "notFound", pre, callers, log)
                    ELSE [r EXCEPT !.pre = pre, !.pc = "update"]]
  /\ UNCHANGED <<users, callers, log, now, faults, sched>>

\* variant of FindById: findById returns no row instead of throwing not-found
FindByIdNoExistenceCheck(p) ==
  /\ proc[p].pc = "findById"
  /\ LET r   == proc[p]
         c   == CurCaller(r)
         pre == Snapshot(callers, log, c)
     IN  proc' = [proc EXCEPT ![p] =
                    IF c \in DOMAIN callers /\ callers[c].assigned_to # NULL
                    THEN EndCall(r, "conflict", pre, callers, log)
                    ELSE [r EXCEPT !.pre = pre, !.pc = "update"]]
  /\ UNCHANGED <<users, callers, log, now, faults, sched>>

\* const caller = await this.findById(callerId); if (caller.assigned_to) throw conflict
FindById(p) ==
  /\ proc[p].pc = "findById"
  /\ LET r   == proc[p]
         c   == CurCaller(r)
         pre == Snapshot(callers, log, c)
     IN  proc' = [proc EXCEPT ![p] =
                    IF c \notin DOMAIN callers THEN EndCall(r, "notFound", pre, callers, log)
                    ELSE IF callers[c].assigned_to # NULL
                         THEN EndCall(r, "conflict", pre, callers, log)
                         ELSE [r EXCEPT !.pre = pre, !.pc = "update"]]
  /\ UNCHANGED <<users, callers, log, now, faults, sched>>

\* variant of AssignedRow: the SET clause lacks assigned_to = ?
AssignedRowLost(row, employee_id, at, call) ==
  [row EXCEPT !.assigned_at = at, !.writer = call]

\* SET assigned_to = ?, assigned_at = NOW()
AssignedRow(row, employee_id, at, call) ==
  [row EXCEPT !.assigned_to = employee_id, !.assigned_at = at, !.writer = call]

\* UPDATE callers SET assigned_to = ?, assigned_at = NOW() WHERE id = ?
UpdateAssignment(p) ==
  /\ proc[p].pc = "update"
  /\ LET r == proc[p]
         c == CurCaller(r)
     IN  IF r.employee_id \notin DOMAIN users /\ c \in DOMAIN callers
         THEN \* FOREIGN KEY (assigned_to) REFERENCES users(id): the store rejects
              /\ proc' = [proc EXCEPT ![p] = EndCall(r, "store", r.pre, callers, log)]
              /\ UNCHANGED <<callers, now>>
         ELSE /\ callers' = IF c \in DOMAIN callers
                            THEN [callers EXCEPT ![c] =
                                    AssignedRow(@, r.employee_id, now, CallId(p, r))]
                            ELSE callers
              /\ now' = now + 1
              /\ proc' = [proc EXCEPT ![p].pc = "insert"]
  /\ UNCHANGED <<users, log, faults, sched>>

\* variant of InsertLog: assigned_by is the system actor whoever the caller of
\* assignToEmployee is
InsertLogAsSystem(p) ==
  /\ proc[p].pc = "insert"
  /\ LET r == proc[p]
         c == CurCaller(r)
     IN  IF c \in DOMAIN callers /\ r.employee_id \in DOMAIN users
         THEN /\ log' = Append(log, [caller_id |-> c, employee_id |-> r.employee_id,
                                     assigned_by |-> SystemActor, method |-> r.method,
                                     call |-> CallId(p, r)])
              /\ proc' = [proc EXCEPT ![p].pc = "refind"]
         ELSE /\ proc' = [proc EXCEPT ![p] = EndCall(r, "store", r.pre, callers, log)]
              /\ UNCHANGED log
  /\ UNCHANGED <<users, callers, now, faults, sched>>

\* INSERT INTO caller_assignment_log (caller_id, employee_id, assigned_by, method)
InsertLog(p) ==
  /\ proc[p].pc = "insert"
  /\ LET r == proc[p]
         c == CurCaller(r)
     IN  IF c \in DOMAIN callers /\ r.employee_id \in DOMAIN users
            /\ r.assignedBy \in DOMAIN users
         THEN /\ log' = Append(log, [caller_id |-> c, employee_id |-> r.employee_id,
                                     assigned_by |-> r.assignedBy, method |-> r.method,
                                     call |-> CallId(p, r)])
              /\ proc' = [proc EXCEPT ![p].pc = "refind"]
         ELSE \* a FOREIGN KEY of caller_assignment_log fails: the store rejects
              /\ proc' = [proc EXCEPT ![p] = EndCall(r, "store", r.pre, callers, log)]
              /\ UNCHANGED log
  /\ UNCHANGED <<users, callers, now, faults, sched>>

\* return await this.findById(callerId)
ReturnFindById(p) ==
  /\ proc[p].pc = "refind"
  /\ LET r == proc[p]
         c == CurCaller(r)
     IN  proc' = [proc EXCEPT ![p] =
                    EndCall(r, IF c \in DOMAIN callers THEN "ok" ELSE "notFound",
                            r.pre, callers, log)]
  /\ UNCHANGED <<users, callers, log, now, faults, sched>>

\* variant of QueryFails: the handler of the failure also stops the timers
QueryFailsStopsTimers(p) ==
  /\ faults > 0
  /\ proc[p].pc \in CallPcs \cup ReadPcs
  /\ faults' = faults - 1
  /\ LET r   == proc[p]
     IN  proc' = [proc EXCEPT ![p] =
                    IF r.pc \in ReadPcs THEN Finish(r, "error")
                    ELSE EndCall(r, "store",
                                 IF r.pc = "findById"
                                 THEN Snapshot(callers, log, CurCaller(r)) ELSE r.pre,
                                 callers, log)]
  /\ tasks' = [t \in DOMAIN tasks |-> [tasks[t] EXCEPT !.running = FALSE]]
  /\ UNCHANGED <<users, callers, log, now, jobs, isRunning, calls>>

\* BaseModel.query: pool.execute rejects, the error is logged and rethrown
QueryFails(p) ==
  /\ faults > 0
  /\ proc[p].pc \in CallPcs \cup ReadPcs
  /\ faults' = faults - 1
  /\ LET r   == proc[p]
     IN  proc' = [proc EXCEPT ![p] =
                    IF r.pc \in ReadPcs THEN Finish(r, "error")
                    ELSE EndCall(r, "store",
                                 IF r.pc = "findById"
                                 THEN Snapshot(callers, log, CurCaller(r)) ELSE r.pre,
                                 callers, log)]
  /\ UNCHANGED <<users, callers, log, now, sched>>

\* ------------------------------------------------------- initial states
\* an empty Map
EmptyMap == [n \in {} |-> 0]

\* constructor(): this.jobs = new Map(); this.isRunning = false
Constructed ==
  /\ jobs = EmptyMap
  /\ isRunning = FALSE
  /\ tasks = <<>>
  /\ calls = <<>>

\* users: the super admin (id 1), three employees and a second super admin
\* (id 5); name is the rank of u.name in the collation, and does not follow
\* the id order
InitUsers ==
  (1 :> [role_id |-> 1, name |-> 0]) @@
  (2 :> [role_id |-> EmployeeRoleId, name |-> 3]) @@
  (3 :> [role_id |-> EmployeeRoleId, name |-> 1]) @@
  (4 :> [role_id |-> EmployeeRoleId, name |-> 2]) @@
  (5 :> [role_id |-> 1, name |-> 4])

Employees == {2, 3, 4}

\* callers 1..N created in id order (created_at DEFAULT CURRENT_TIMESTAMP);
\* owner[c] # NULL is a caller assigned before the behaviour starts
InitCallers(owner, status) ==
  [c \in DOMAIN owner |->
     [assigned_to |-> owner[c],
      assigned_at |-> IF owner[c] = NULL THEN NULL ELSE 1,
      status      |-> status[c],
      created_at  |-> c,
      writer      |-> NoCall]]

\* the log entries of the assignments made before the behaviour starts,
\* one per assigned caller, in caller order
InitLog(owner) ==
  LET held == {c \in DOMAIN owner : owner[c] # NULL}
  IN  [i \in 1..Cardinality(held) |->
         LET c == CHOOSE x \in held : Cardinality({d \in held : d < x}) = i - 1
         IN  [caller_id |-> c, employee_id |-> owner[c], assigned_by |-> 1,
              method |-> "manual", call |-> NoCall]]

\* Concurrent specification: ConcCallers active callers, each unassigned or
\* held by employee 2; the invocations interleave at every store operation.
Init ==
  /\ users = InitUsers
  /\ \E owner \in [1..ConcCallers -> {NULL, 2}] :
        /\ callers = InitCallers(owner, [c \in 1..ConcCallers |-> "active"])
        /\ log = InitLog(owner)
  /\ now = 2
  /\ faults = MaxFaults
  /\ proc = [p \in Procs |-> IdleProc]
  /\ Constructed

\* the caller_ids an admin may post: one id (existing, or one past the last
\* row, which does not exist) or every existing id in order
RECURSIVE UpTo(_)
UpTo(n) == IF n = 0 THEN <<>> ELSE Append(UpTo(n - 1), n)

ManualCallerIds ==
  {<<c>> : c \in 1..(ConcCallers + 1)} \cup {UpTo(ConcCallers)}

\* the employee_id an admin may post
ManualEmployeeIds == {3, 4}

\* req.user.id of a request that passed requireSuperAdmin
AdminIds == {1, 5}

\* An automatic run and an admin's manual assignment, interleaved.
Next ==
  \/ StartAutoAssignment("run1")
  \/ GetEmployees("run1")
  \/ GetUnassigned("run1")
  \/ \E ids \in ManualCallerIds : \E e \in ManualEmployeeIds : \E a \in AdminIds :
        AssignCallers("admin", ids, e, a)
  \/ \E p \in {"run1", "admin"} : FindById(p)
  \/ \E p \in {"run1", "admin"} : UpdateAssignment(p)
  \/ \E p \in {"run1", "admin"} : InsertLog(p)
  \/ \E p \in {"run1", "admin"} : ReturnFindById(p)
  \/ \E p \in {"run1", "admin"} : QueryFails(p)

Spec == Init /\ [][Next]_vars

\* Two invocations of performAutoAssignment (a cron firing and a manual
\* trigger, or two firings), interleaved.
NextOverlap ==
  \/ \E r \in Runs : StartAutoAssignment(r)
  \/ \E r \in Runs : GetEmployees(r)
  \/ \E r \in Runs : GetUnassigned(r)
  \/ \E r \in Runs : FindById(r)
  \/ \E r \in Runs : UpdateAssignment(r)
  \/ \E r \in Runs : InsertLog(r)
  \/ \E r \in Runs : ReturnFindById(r)
  \/ \E r \in Runs : QueryFails(r)

SpecOverlap == Init /\ [][NextOverlap]_vars

\* ---------------------------------------------- sequential specification
\* the backlogs (unassigned active callers) of the sequential initial states:
\* small ones, the batch ceiling, the ceiling plus one, and a large one
SeqBacklogs == (0..SeqCallers) \cup {BatchLimit, BatchLimit + 1, BigCallers}

\* rows 1..inactive are unassigned inactive callers; then the callers the
\* employees 2, 3, 4 already hold; then the backlog
SeqOwner(inactive, load, backlog) ==
  [c \in 1..(inactive + load[2] + load[3] + load[4] + backlog) |->
     IF c <= inactive THEN NULL
     ELSE IF c <= inactive + load[2] THEN 2
     ELSE IF c <= inactive + load[2] + load[3] THEN 3
     ELSE IF c <= inactive + load[2] + load[3] + load[4] THEN 4
     ELSE NULL]

\* the users table before any employee is created: the super admins only
AdminsOnly ==
  [u \in {x \in DOMAIN InitUsers : InitUsers[x].role_id # EmployeeRoleId} |-> InitUsers[u]]

\* Store faults are injected for the small backlogs only. The users table
\* holds the three employees, or no employee at all (and then nobody holds
\* a caller).
InitSeq ==
  /\ \E staffed \in BOOLEAN : \E inactive \in 0..1 :
     \E load \in [Employees -> {0, MaxLoad}] : \E backlog \in SeqBacklogs :
        LET owner == SeqOwner(inactive, load, backlog)
        IN  /\ users = IF staffed THEN InitUsers ELSE AdminsOnly
            /\ ~staffed => load = [e \in Employees |-> 0]
            /\ callers = InitCallers(owner, [c \in DOMAIN owner |->
                                        IF c <= inactive THEN "inactive" ELSE "active"])
            /\ log = InitLog(owner)
            /\ faults = IF backlog <= SeqCallers THEN MaxFaults ELSE 0
  /\ now = 2
  /\ proc = [p \in Procs |-> IdleProc]
  /\ Constructed

\* the second run is entered after the first has returned; nothing else runs
StartSecondRun ==
  /\ proc["run1"].pc = "done"
  /\ StartAutoAssignment("run2")

\* performAutoAssignment run twice in succession, alone.
NextSeq ==
  \/ StartAutoAssignment("run1")
  \/ StartSecondRun
  \/ \E r \in Runs : GetEmployees(r)
  \/ \E r \in Runs : GetUnassigned(r)
  \/ \E r \in Runs : FindById(r)
  \/ \E r \in Runs : UpdateAssignment(r)
  \/ \E r \in Runs : InsertLog(r)
  \/ \E r \in Runs : ReturnFindById(r)
  \/ \E r \in Runs : QueryFails(r)

SpecSeq == InitSeq /\ [][NextSeq]_vars

\* ------------------------------------------------- the other operations
\* markCallerAsCalled: the request of employee req.user.id for caller callerId
MarkCallerAsCalled(q, callerId, user) ==
  /\ proc[q].pc = "idle"
  /\ proc' = [proc EXCEPT ![q] = [IdleProc EXCEPT !.pc = "ownership",
                                                  !.method = "markCalled",
                                                  !.callersToAssign = <<callerId>>,
                                                  !.k = 1,
                                                  !.employee_id = user]]
  /\ UNCHANGED <<users, callers, log, now, faults, sched>>

\* updateCaller: the request of employee req.user.id with body {status}
UpdateCaller(q, callerId, user, status) ==
  /\ proc[q].pc = "idle"
  /\ proc' = [proc EXCEPT ![q] = [IdleProc EXCEPT !.pc = "ownership",
                                                  !.method = "update",
                                                  !.callersToAssign = <<callerId>>,
                                                  !.k = 1,
                                                  !.employee_id = user,
                                                  !.updateData = status]]
  /\ UNCHANGED <<users, callers, log, now, faults, sched>>

\* const caller = await Caller.findById(callerId);
\* if (caller.assigned_to !== req.user.id) -> 403 / redirect
CheckOwnership(q) ==
  /\ proc[q].pc = "ownership"
  /\ LET r == proc[q]
         c == CurCaller(r)
     IN  proc' = [proc EXCEPT ![q] =
                    IF c \notin DOMAIN callers THEN Finish(r, "notFound")
                    ELSE IF callers[c].assigned_to # r.employee_id
                         THEN Finish(r, "forbidden")
                         ELSE [r EXCEPT !.pc = IF r.method = "markCalled"
                                               THEN "markAsCalled" ELSE "callerUpdate"]]
  /\ UNCHANGED <<users, callers, log, now, faults, sched>>

\* UPDATE callers SET assigned_to = NULL, assigned_at = NULL, status = 'inactive'
\* WHERE id = ?
MarkAsCalled(q) ==
  /\ proc[q].pc = "markAsCalled"
  /\ LET r == proc[q]
         c == CurCaller(r)
     IN  IF c \in DOMAIN callers
         THEN /\ callers' = [callers EXCEPT ![c].assigned_to = NULL,
                                            ![c].assigned_at = NULL,
                                            ![c].status = "inactive",
                                            ![c].writer = NoCall]
              /\ proc' = [proc EXCEPT ![q] = Finish(r, "completed")]
         ELSE /\ proc' = [proc EXCEPT ![q] = Finish(r, "notFound")]
              /\ UNCHANGED callers
  /\ UNCHANGED <<users, log, now, faults, sched>>

\* Caller.update: UPDATE callers SET status = ?, updated_at = NOW() WHERE id = ?
\* (allowedFields: name, email, phone, status), then a read of the row
CallerUpdate(q) ==
  /\ proc[q].pc = "callerUpdate"
  /\ LET r == proc[q]
         c == CurCaller(r)
     IN  IF c \in DOMAIN callers
         THEN /\ callers' = [callers EXCEPT ![c].status = r.updateData]
              /\ proc' = [proc EXCEPT ![q] = Finish(r, "completed")]
         ELSE /\ proc' = [proc EXCEPT ![q] = Finish(r, "notFound")]
              /\ UNCHANGED callers
  /\ UNCHANGED <<users, log, now, faults, sched>>

\* the rows of a table other than row d
Without(t, d) == [x \in DOMAIN t \ {d} |-> t[x]]

\* deleteUser by admin req.user.id: DELETE FROM users WHERE id = ?, with
\* callers.assigned_to ON DELETE SET NULL and caller_assignment_log.employee_id,
\* assigned_by ON DELETE CASCADE
DeleteUser(d, userId, admin) ==
  /\ proc[d].pc = "idle"
  /\ userId # admin
  /\ userId \in DOMAIN users
  /\ users' = Without(users, userId)
  /\ callers' = [c \in DOMAIN callers |->
                   IF callers[c].assigned_to = userId
                   THEN [callers[c] EXCEPT !.assigned_to = NULL, !.writer = NoCall]
                   ELSE callers[c]]
  /\ log' = SelectSeq(log, LAMBDA e : e.employee_id # userId /\ e.assigned_by # userId)
  /\ proc' = [proc EXCEPT ![d] = [Finish(IdleProc, "completed") EXCEPT
                                    !.method = "deleteUser", !.employee_id = userId]]
  /\ UNCHANGED <<now, faults, sched>>

\* Caller.delete: DELETE FROM callers WHERE id = ?, with
\* caller_assignment_log.caller_id ON DELETE CASCADE
DeleteCaller(d, id) ==
  /\ proc[d].pc = "idle"
  /\ id \in DOMAIN callers
  /\ callers' = Without(callers, id)
  /\ log' = SelectSeq(log, LAMBDA e : e.caller_id # id)
  /\ proc' = [proc EXCEPT ![d] = [Finish(IdleProc, "completed") EXCEPT
                                    !.method = "deleteCaller",
                                    !.callersToAssign = <<id>>, !.k = 1]]
  /\ UNCHANGED <<users, now, faults, sched>>

\* the store works throughout; caller 1 is unassigned or held by employee 2
InitOps ==
  /\ users = InitUsers
  /\ \E owner \in [1..OpsCallers -> {NULL, 2}] :
        /\ callers = InitCallers(owner, [c \in 1..OpsCallers |-> "active"])
        /\ log = InitLog(owner)
  /\ now = 2
  /\ faults = 0
  /\ proc = [p \in Procs |-> IdleProc]
  /\ Constructed

\* An automatic run, a manual assignment, an employee's request and a
\* deletion, interleaved at every store operation.
NextOps ==
  \/ StartAutoAssignment("run1")
  \/ GetEmployees("run1")
  \/ GetUnassigned("run1")
  \/ \E c \in 1..OpsCallers : \E a \in AdminIds \ {SystemActor} :
        AssignCallers("admin", <<c>>, 3, a)
  \/ \E p \in {"run1", "admin"} : FindById(p)
  \/ \E p \in {"run1", "admin"} : UpdateAssignment(p)
  \/ \E p \in {"run1", "admin"} : InsertLog(p)
  \/ \E p \in {"run1", "admin"} : ReturnFindById(p)
  \/ \E c \in 1..OpsCallers : \E e \in {2, 3} : MarkCallerAsCalled("employee", c, e)
  \/ \E c \in 1..OpsCallers : \E e \in {2, 3} : \E st \in {"active", "inactive"} :
        UpdateCaller("employee", c, e, st)
  \/ CheckOwnership("employee")
  \/ MarkAsCalled("employee")
  \/ CallerUpdate("employee")
  \/ \E u \in DOMAIN InitUsers \ {SystemActor} : DeleteUser("deletion", u, SystemActor)
  \/ \E c \in 1..OpsCallers : DeleteCaller("deletion", c)

SpecOps == InitOps /\ [][NextOps]_vars

\* -------------------------------------------------------- the scheduler
\* this.jobs.set('autoAssignment', job) / this.jobs.set('healthCheck', job)
JobNames == {"autoAssignment", "healthCheck"}

\* cron.schedule(expression, callback, {scheduled: true}): a new task, armed
Schedule(ts, name) == Append(ts, [name |-> name, running |-> TRUE])

\* job.stop() on the tasks T
StopTasks(ts, T) ==
  [t \in DOMAIN ts |-> IF t \in T THEN [ts[t] EXCEPT !.running = FALSE] ELSE ts[t]]

\* variant of StopAll: the loop lacks job.stop()
StopAllKeepsTimers(js, ts) == ts

\* for (const [jobName, job] of this.jobs) { job.stop() }
StopAll(js, ts) == StopTasks(ts, {js[n] : n \in DOMAIN js})

\* a call on the CronJobManager is entered
Call(op) ==
  /\ Len(calls) < MaxCalls
  /\ calls' = Append(calls, [op |-> op, at |-> now])

\* variant of CronManagerInit: the test of isRunning is missing
CronManagerInitUnguarded ==
  /\ Call("init")
  /\ tasks' = Schedule(Schedule(tasks, "autoAssignment"), "healthCheck")
  /\ jobs' = [n \in DOMAIN jobs \cup JobNames |->
                IF n = "autoAssignment" THEN Len(tasks) + 1 ELSE Len(tasks) + 2]
  /\ isRunning' = TRUE
  /\ UNCHANGED <<users, callers, log, now, faults, proc>>

\* init(): if (this.isRunning) return; startAutoAssignmentJob();
\* startHealthCheckJob(); this.isRunning = true
CronManagerInit ==
  /\ Call("init")
  /\ IF isRunning
     THEN UNCHANGED <<jobs, isRunning, tasks>>
     ELSE /\ tasks' = Schedule(Schedule(tasks, "autoAssignment"), "healthCheck")
          /\ jobs' = [n \in DOMAIN jobs \cup JobNames |->
                        IF n = "autoAssignment" THEN Len(tasks) + 1 ELSE Len(tasks) + 2]
          /\ isRunning' = TRUE
  /\ UNCHANGED <<users, callers, log, now, faults, proc>>

\* stopAllJobs(), also the SIGINT / SIGTERM handlers
StopAllJobs ==
  /\ Call("stopAllJobs")
  /\ tasks' = StopAll(jobs, tasks)
  /\ jobs' = EmptyMap
  /\ isRunning' = FALSE
  /\ UNCHANGED <<users, callers, log, now, faults, proc>>

\* stopJob(jobName): job.stop(); this.jobs.delete(jobName)
StopJob(jobName) ==
  /\ Call("stopJob")
  /\ IF jobName \in DOMAIN jobs
     THEN /\ tasks' = StopTasks(tasks, {jobs[jobName]})
          /\ jobs' = Without(jobs, jobName)
     ELSE UNCHANGED <<jobs, tasks>>
  /\ UNCHANGED <<users, callers, log, now, faults, proc, isRunning>>

\* the timer of an armed autoAssignment task fires:
\* async () => { await this.performAutoAssignment() }
\* (the second firing comes after the first run has returned; overlapping
\* runs are the subject of SpecOverlap)
CronFiresAutoAssignment(t, r) ==
  /\ tasks[t].running
  /\ tasks[t].name = "autoAssignment"
  /\ r = "run1" \/ proc["run1"].pc = "done"
  /\ StartAutoAssignment(r)

\* performHealthCheck is entered
PerformHealthCheck(h) ==
  /\ proc[h].pc = "idle"
  /\ proc' = [proc EXCEPT ![h] = [IdleProc EXCEPT !.pc = "testConnection",
                                                  !.method = "healthCheck"]]
  /\ UNCHANGED <<users, callers, log, now, faults, sched>>

\* the timer of an armed healthCheck task fires:
\* async () => { await this.performHealthCheck() }
CronFiresHealthCheck(t, h) ==
  /\ tasks[t].running
  /\ tasks[t].name = "healthCheck"
  /\ PerformHealthCheck(h)

\* const dbStatus = await User.testConnection(): the ping succeeds
TestConnection(h) ==
  /\ proc[h].pc = "testConnection"
  /\ proc' = [proc EXCEPT ![h] = Finish(@, "passed")]
  /\ UNCHANGED <<users, callers, log, now, faults, sched>>

\* testConnection rejects; the catch of performHealthCheck logs the error
TestConnectionFails(h) ==
  /\ faults > 0
  /\ proc[h].pc = "testConnection"
  /\ faults' = faults - 1
  /\ proc' = [proc EXCEPT ![h] = Finish(@, "error")]
  /\ UNCHANGED <<users, callers, log, now, sched>>

\* the CronJobManager as constructed, over one unassigned active caller
InitSched ==
  /\ users = InitUsers
  /\ callers = InitCallers([c \in {1} |-> NULL], [c \in {1} |-> "active"])
  /\ log = <<>>
  /\ now = 2
  /\ faults = MaxFaults
  /\ proc = [p \in Procs |-> IdleProc]
  /\ Constructed

\* The scheduler's calls, its timers' firings and the job bodies they start.
NextSched ==
  \/ CronManagerInit
  \/ StopAllJobs
  \/ \E n \in JobNames : StopJob(n)
  \/ \E t \in DOMAIN tasks : \E r \in Runs : CronFiresAutoAssignment(t, r)
  \/ \E t \in DOMAIN tasks : \E h \in Probes : CronFiresHealthCheck(t, h)
  \/ \E r \in Runs : GetEmployees(r)
  \/ \E r \in Runs : GetUnassigned(r)
  \/ \E r \in Runs : FindById(r)
  \/ \E r \in Runs : UpdateAssignment(r)
  \/ \E r \in Runs : InsertLog(r)
  \/ \E r \in Runs : ReturnFindById(r)
  \/ \E r \in Runs : QueryFails(r)
  \/ \E h \in Probes : TestConnection(h)
  \/ \E h \in Probes : TestConnectionFails(h)

SpecSched == InitSched /\ [][NextSched]_vars

\* the next store operation of the job body p returns
BodyStep(p) ==
  \/ GetEmployees(p)
  \/ GetUnassigned(p)
  \/ FindById(p)
  \/ UpdateAssignment(p)
  \/ InsertLog(p)
  \/ ReturnFindById(p)
  \/ TestConnection(p)

\* node-cron fires an armed task again and again: a firing that stays
\* possible happens; and the store answers every operation a job body awaits
SpecSchedFair ==
  /\ SpecSched
  /\ WF_vars(\E t \in DOMAIN tasks : \E r \in Runs : CronFiresAutoAssignment(t, r))
  /\ WF_vars(\E t \in DOMAIN tasks : \E h \in Probes : CronFiresHealthCheck(t, h))
  /\ \A p \in Runs \cup Probes : WF_vars(BodyStep(p))

\* ------------------------------------------ any employee_id in the body
\* the employee_id of a body that passes assignmentSchemas.assign (a positive
\* integer): the super admin, an employee, an id no user has
PostedEmployeeIds == {1, 3, 6}

\* An automatic run and an admin's manual assignment to any posted id.
NextPosted ==
  \/ StartAutoAssignment("run1")
  \/ GetEmployees("run1")
  \/ GetUnassigned("run1")
  \/ \E ids \in ManualCallerIds : \E e \in PostedEmployeeIds : \E a \in AdminIds :
        AssignCallers("admin", ids, e, a)
  \/ \E p \in {"run1", "admin"} : FindById(p)
  \/ \E p \in {"run1", "admin"} : UpdateAssignment(p)
  \/ \E p \in {"run1", "admin"} : InsertLog(p)
  \/ \E p \in {"run1", "admin"} : ReturnFindById(p)
  \/ \E p \in {"run1", "admin"} : QueryFails(p)

SpecPosted == Init /\ [][NextPosted]_vars

\* --------------------------------------------- a run with a stale list
\* a backlog of two batches, nobody holding a caller, no store fault
InitStale ==
  /\ users = InitUsers
  /\ callers = InitCallers([c \in 1..StaleCallers |-> NULL],
                           [c \in 1..StaleCallers |-> "active"])
  /\ log = <<>>
  /\ now = 2
  /\ faults = 0
  /\ proc = [p \in Procs |-> IdleProc]
  /\ Constructed

\* Two overlapping invocations of performAutoAssignment: run2 reads its
\* employee list at any moment of run1, and its unassigned list after run1
\* has returned.
NextStale ==
  \/ \E r \in Runs : StartAutoAssignment(r)
  \/ \E r \in Runs : GetEmployees(r)
  \/ GetUnassigned("run1")
  \/ proc["run1"].pc = "done" /\ GetUnassigned("run2")
  \/ \E r \in Runs : FindById(r)
  \/ \E r \in Runs : UpdateAssignment(r)
  \/ \E r \in Runs : InsertLog(r)
  \/ \E r \in Runs : ReturnFindById(r)

SpecStale == InitStale /\ [][NextStale]_vars

\* ------------------------------------------- the rest of the manager's API
\* restart(): this.stopAllJobs(); await this.init()
Restart ==
  /\ Call("restart")
  /\ LET stopped == StopAll(jobs, tasks)
     IN  /\ tasks' = Schedule(Schedule(stopped, "autoAssignment"), "healthCheck")
         /\ jobs' = [n \in JobNames |->
                       IF n = "autoAssignment" THEN Len(tasks) + 1 ELSE Len(tasks) + 2]
  /\ isRunning' = TRUE
  /\ UNCHANGED <<users, callers, log, now, faults, proc>>

\* updateSchedule(jobName, newSchedule): job.stop(); cron.schedule(newSchedule,
\* job.callback, ...) returns a task (valid) or throws, and the catch returns false
UpdateSchedule(jobName, valid) ==
  /\ Call("updateSchedule")
  /\ IF jobName \in DOMAIN jobs
     THEN IF valid
          THEN /\ tasks' = Schedule(StopTasks(tasks, {jobs[jobName]}), jobName)
               /\ jobs' = [jobs EXCEPT ![jobName] = Len(tasks) + 1]
          ELSE /\ tasks' = StopTasks(tasks, {jobs[jobName]})
               /\ UNCHANGED jobs
     ELSE UNCHANGED <<jobs, tasks>>
  /\ UNCHANGED <<users, callers, log, now, faults, proc, isRunning>>

\* variant of TriggerAutoAssignment: the trigger also re-arms the job's timer
TriggerAutoAssignmentRearms(g, r) ==
  /\ Call("triggerAutoAssignment")
  /\ proc[g].pc = "idle"
  /\ proc[r].pc = "idle"
  /\ proc' = [proc EXCEPT
                ![g] = [IdleProc EXCEPT !.pc = "awaitBody",
                                        !.method = "triggerAutoAssignment",
                                        !.awaits = r],
                ![r] = [IdleProc EXCEPT !.pc = "getEmployees",
                                        !.method = "auto",
                                        !.assignedBy = SystemActor]]
  /\ tasks' = Schedule(StopTasks(tasks, {jobs[n] : n \in DOMAIN jobs \cap {"autoAssignment"}}),
                       "autoAssignment")
  /\ jobs' = [n \in DOMAIN jobs \cup {"autoAssignment"} |->
                IF n = "autoAssignment" THEN Len(tasks) + 1 ELSE jobs[n]]
  /\ UNCHANGED <<users, callers, log, now, faults, isRunning>>

\* triggerAutoAssignment() up to its await: await this.performAutoAssignment()
TriggerAutoAssignment(g, r) ==
  /\ Call("triggerAutoAssignment")
  /\ proc[g].pc = "idle"
  /\ proc[r].pc = "idle"
  /\ proc' = [proc EXCEPT
                ![g] = [IdleProc EXCEPT !.pc = "awaitBody",
                                        !.method = "triggerAutoAssignment",
                                        !.awaits = r],
                ![r] = [IdleProc EXCEPT !.pc = "getEmployees",
                                        !.method = "auto",
                                        !.assignedBy = SystemActor]]
  /\ UNCHANGED <<users, callers, log, now, faults, jobs, isRunning, tasks>>

\* triggerHealthCheck() up to its await: await this.performHealthCheck()
TriggerHealthCheck(g, h) ==
  /\ Call("triggerHealthCheck")
  /\ proc[g].pc = "idle"
  /\ proc[h].pc = "idle"
  /\ proc' = [proc EXCEPT
                ![g] = [IdleProc EXCEPT !.pc = "awaitBody",
                                        !.method = "triggerHealthCheck",
                                        !.awaits = h],
                ![h] = [IdleProc EXCEPT !.pc = "testConnection",
                                        !.method = "healthCheck"]]
  /\ UNCHANGED <<users, callers, log, now, faults, jobs, isRunning, tasks>>

\* does the promise of the job body reject?  performAutoAssignment and
\* performHealthCheck catch every error of their body and log it
BodyRejects(body) == FALSE

\* the awaited body has settled: return { success: true, message: ... }, or
\* in the catch return { success: false, message: error.message }
TriggerReturns(g) ==
  /\ proc[g].pc = "awaitBody"
  /\ proc[proc[g].awaits].pc = "done"
  /\ proc' = [proc EXCEPT ![g] =
                Finish(@, IF BodyRejects(proc[proc[g].awaits])
                          THEN "successFalse" ELSE "successTrue")]
  /\ UNCHANGED <<users, callers, log, now, faults, sched>>

\* Every call of the manager's API, the timers' firings and the job bodies.
\* (The autoAssignment timer fires here once the triggered run has returned;
\* its firings without a trigger are in SpecSched, overlapping runs in SpecOverlap.)
NextMgr ==
  \/ CronManagerInit
  \/ StopAllJobs
  \/ \E n \in JobNames : StopJob(n)
  \/ Restart
  \/ \E n \in JobNames : \E valid \in BOOLEAN : UpdateSchedule(n, valid)
  \/ \E g \in Triggers : TriggerAutoAssignment(g, "run2")
  \/ \E g \in Triggers : \E h \in TriggeredProbes : TriggerHealthCheck(g, h)
  \/ \E g \in Triggers : TriggerReturns(g)
  \/ \E t \in DOMAIN tasks : proc["run2"].pc = "done" /\ CronFiresAutoAssignment(t, "run1")
  \/ \E t \in DOMAIN tasks : \E h \in Probes : CronFiresHealthCheck(t, h)
  \/ \E r \in Runs : GetEmployees(r)
  \/ \E r \in Runs : GetUnassigned(r)
  \/ \E r \in Runs : FindById(r)
  \/ \E r \in Runs : UpdateAssignment(r)
  \/ \E r \in Runs : InsertLog(r)
  \/ \E r \in Runs : ReturnFindById(r)
  \/ \E r \in Runs : QueryFails(r)
  \/ \E h \in Probes \cup TriggeredProbes : TestConnection(h)
  \/ \E h \in Probes \cup TriggeredProbes : TestConnectionFails(h)

SpecMgr == InitSched /\ [][NextMgr]_vars


\* ------------------------------------------------- the running scheduler
\* the scheduler after init() at startup: both jobs registered and armed
Started ==
  /\ tasks = Schedule(Schedule(<<>>, "autoAssignment"), "healthCheck")
  /\ jobs = [n \in JobNames |-> IF n = "autoAssignment" THEN 1 ELSE 2]
  /\ isRunning = TRUE
  /\ calls = <<[op |-> "init", at |-> 2]>>

\* ProgCallers active callers, each unassigned or held by employee 3 or 4
\* (employee 2, last by name, holds nothing); the store answers every query
InitProgress ==
  /\ users = InitUsers
  /\ \E owner \in [1..ProgCallers -> {NULL, 3, 4}] :
        /\ callers = InitCallers(owner, [c \in 1..ProgCallers |-> "active"])
        /\ log = InitLog(owner)
  /\ now = 2
  /\ faults = 0
  /\ proc = [p \in Procs |-> IdleProc]
  /\ Started

\* The scheduler is left running: the autoAssignment timer fires run after
\* run while an employee marks a caller as called.
NextProgress ==
  \/ \E t \in DOMAIN tasks : \E r \in Runs : CronFiresAutoAssignment(t, r)
  \/ \E r \in Runs : GetEmployees(r)
  \/ \E r \in Runs : GetUnassigned(r)
  \/ \E r \in Runs : FindById(r)
  \/ \E r \in Runs : UpdateAssignment(r)
  \/ \E r \in Runs : InsertLog(r)
  \/ \E r \in Runs : ReturnFindById(r)
  \/ \E c \in 1..ProgCallers : \E e \in {3, 4} : MarkCallerAsCalled("employee", c, e)
  \/ CheckOwnership("employee")
  \/ MarkAsCalled("employee")

\* node-cron fires the armed autoAssignment task again and again, and the
\* store answers every operation a run awaits
SpecProgress ==
  /\ InitProgress /\ [][NextProgress]_vars
  /\ WF_vars(\E t \in DOMAIN tasks : \E r \in Runs : CronFiresAutoAssignment(t, r))
  /\ \A r \in Runs : WF_vars(BodyStep(r))

\* ------------------------------------------------------------- properties
\* the run met no store error, in its reads or in any of its commits
FaultFree(r) ==
  /\ proc[r].result # "error"
  /\ \A i \in DOMAIN proc[r].attempts : proc[r].attempts[i].outcome # "store"

\* the callers that were unassigned and active when the first run started
\* (sequential specification: only the runs write)
Backlog0 ==
  {c \in DOMAIN callers :
     /\ callers[c].status = "active"
     /\ callers[c].assigned_to = NULL \/ callers[c].writer # NoCall}

\* the snapshot positions of the employees that were idle when run r read them
IdleAt(r) == {i \in DOMAIN proc[r].employees : proc[r].employees[i].caller_count = 0}

\* run r has written nothing: no caller row and no log entry comes from it
NoNewAssignments(r) ==
  /\ proc[r].assignedCount = 0
  /\ \A c \in DOMAIN callers : callers[c].writer[1] # r
  /\ \A i \in DOMAIN log : log[i].call[1] # r

\* C1: when an automatic and a manual assignment target the same caller, at
\* most one of the two calls succeeds, and the assignment a successful call
\* made is never overwritten by the other writer.
C1_ExactlyOneWriterWins ==
  /\ \A i \in DOMAIN proc["run1"].attempts : \A j \in DOMAIN proc["admin"].attempts :
        LET a == proc["run1"].attempts[i]
            m == proc["admin"].attempts[j]
        IN  a.callerId = m.callerId => ~(a.outcome = "ok" /\ m.outcome = "ok")
  /\ \A p \in {"run1", "admin"} : \A i \in DOMAIN proc[p].attempts :
        LET a == proc[p].attempts[i]
        IN  a.outcome = "ok" => callers[a.callerId].assigned_to = a.employeeId

\* C2: assignToEmployee is all-or-nothing: in every state, a caller whose
\* assigned_to was set by a call has exactly one log entry written by that
\* call, carrying the call's employee.
C2_AssignmentAndLogTogether ==
  \A c \in DOMAIN callers :
     callers[c].writer # NoCall =>
        Cardinality({i \in DOMAIN log :
                       /\ log[i].call = callers[c].writer
                       /\ log[i].caller_id = c
                       /\ log[i].employee_id = callers[c].assigned_to}) = 1

\* C3: a call of assignToEmployee that fails with a store error at its
\* existence read, its UPDATE or its INSERT leaves the caller's assigned_to
\* and assigned_at and the caller's log entries as they were before the call.
C3_StoreErrorLeavesNoTrace ==
  \A r \in Runs : \A i \in DOMAIN proc[r].attempts :
     LET a == proc[r].attempts[i]
     IN  (a.outcome = "store" /\ a.at \in {"findById", "update", "insert"})
            => a.post = a.pre

\* C4: two overlapping runs never both commit the same caller: no caller has
\* a successful call from both runs, nor more than one 'auto' log entry
\* written by them.
C4_OverlappingRunsCommitOnce ==
  \A c \in DOMAIN callers :
     /\ ~(/\ \E i \in DOMAIN proc["run1"].attempts :
               /\ proc["run1"].attempts[i].callerId = c
               /\ proc["run1"].attempts[i].outcome = "ok"
          /\ \E j \in DOMAIN proc["run2"].attempts :
               /\ proc["run2"].attempts[j].callerId = c
               /\ proc["run2"].attempts[j].outcome = "ok")
     /\ Cardinality({i \in DOMAIN log :
                       /\ log[i].caller_id = c
                       /\ log[i].method = "auto"
                       /\ log[i].call[1] \in Runs}) <= 1

\* C5: an employee whose caller_count is greater than zero in the employee
\* list a run read receives nothing from that run: no call of the run names
\* that employee, and no caller row or log entry written by the run does.
C5_IdleOnlyEligibility ==
  \A r \in Runs : \A i \in DOMAIN proc[r].employees :
     LET e == proc[r].employees[i]
     IN  e.caller_count > 0 =>
           /\ \A j \in DOMAIN proc[r].attempts : proc[r].attempts[j].employeeId # e.id
           /\ ~(proc[r].pc \in CallPcs /\ proc[r].employee_id = e.id)
           /\ \A c \in DOMAIN callers :
                 callers[c].writer[1] = r => callers[c].assigned_to # e.id
           /\ \A j \in DOMAIN log : log[j].call[1] = r => log[j].employee_id # e.id

\* a finished run that assigned callers while its employee list held a busy employee
C5_Witness ==
  \E r \in Runs :
     /\ proc[r].pc = "done"
     /\ proc[r].assignedCount > 0
     /\ \E i \in DOMAIN proc[r].employees : proc[r].employees[i].caller_count > 0

AssignedBy(r) ==
  {c \in DOMAIN callers : callers[c].writer[1] = r /\ callers[c].assigned_to # NULL}

\* C7: with more than BatchLimit unassigned active callers and exactly one
\* idle employee, a run without store errors assigns exactly the BatchLimit
\* oldest callers to that employee, each with one log entry, and leaves the
\* rest unassigned.
C7_BatchCeiling ==
  LET r == proc["run1"]
  IN  (/\ r.pc = "done" /\ proc["run2"].pc = "idle"
       /\ FaultFree("run1")
       /\ Cardinality(IdleAt("run1")) = 1
       /\ Cardinality(Backlog0) > BatchLimit)
        => /\ r.assignedCount = BatchLimit
           /\ Cardinality(AssignedBy("run1")) = BatchLimit
           /\ AssignedBy("run1") \subseteq Backlog0
           /\ \A a \in AssignedBy("run1") :
                 /\ \A i \in IdleAt("run1") : callers[a].assigned_to = r.employees[i].id
                 /\ Cardinality({i \in DOMAIN log : log[i].call = callers[a].writer}) = 1
                 /\ \A b \in Backlog0 \ AssignedBy("run1") :
                       /\ callers[a].created_at < callers[b].created_at
                       /\ callers[b].assigned_to = NULL

\* one run over a backlog of more than BatchLimit + 1 callers with one idle employee
C7_Witness ==
  /\ proc["run1"].pc = "done" /\ proc["run2"].pc = "idle"
  /\ FaultFree("run1")
  /\ Cardinality(IdleAt("run1")) = 1
  /\ Cardinality(Backlog0) > BatchLimit + 1
  /\ proc["run1"].assignedCount = BatchLimit

\* the employee of run r's list that is idle and first by name
FirstIdleByName(r) ==
  CHOOSE e \in {proc[r].employees[i].id : i \in IdleAt(r)} :
     \A i \in IdleAt(r) : users[e].name <= users[proc[r].employees[i].id].name

\* C8: a run commits in created_at order: the list it read is strictly
\* created_at-ascending, its calls follow that list position by position, and
\* every caller it has written is one it has attempted or is attempting, so no
\* later-created caller is assigned before an earlier one is attempted; and a
\* first run without store errors over at most BatchLimit unassigned callers,
\* with an idle employee, ends with all of them assigned to that employee.
C8_FifoOrder ==
  /\ \A r \in Runs :
        LET batch == proc[r].unassignedCallers
            done  == proc[r].attempts
        IN  /\ \A i \in 1..(Len(batch) - 1) :
                  callers[batch[i]].created_at < callers[batch[i + 1]].created_at
            /\ Len(done) <= Len(batch)
            /\ \A i \in DOMAIN done : done[i].callerId = batch[i]
            /\ \A c \in DOMAIN callers :
                  callers[c].writer[1] = r =>
                     /\ callers[c].writer[2] <= Len(done) + 1
                     /\ batch[callers[c].writer[2]] = c
  /\ (/\ proc["run1"].pc = "done"
      /\ FaultFree("run1")
      /\ IdleAt("run1") # {}
      /\ Cardinality(Backlog0) <= BatchLimit)
       => \A c \in Backlog0 : callers[c].assigned_to = FirstIdleByName("run1")

\* a finished first run that assigned three or more callers, in order, to
\* the one idle employee
C8_Witness ==
  /\ proc["run1"].pc = "done" /\ proc["run2"].pc = "idle"
  /\ FaultFree("run1")
  /\ Cardinality(IdleAt("run1")) = 1
  /\ Cardinality(Backlog0) >= 3 /\ Cardinality(Backlog0) <= BatchLimit
  /\ proc["run1"].assignedCount = Cardinality(Backlog0)

\* C9: a failed commit does not stop the run: a run that entered its loop
\* completes, has attempted every caller of its batch exactly once and in
\* order, counts exactly the calls that returned, and every caller whose call
\* returned is assigned to the call's employee with the call's 'auto' log
\* entry by the system actor.
C9_PartialFailureIsolation ==
  \A r \in Runs :
     LET batch == proc[r].unassignedCallers
         done  == proc[r].attempts
     IN  (proc[r].pc = "done" /\ Len(batch) > 0 /\ IdleAt(r) # {}) =>
           /\ proc[r].result = "completed"
           /\ Len(done) = Len(batch)
           /\ \A i \in DOMAIN done : done[i].callerId = batch[i]
           /\ proc[r].assignedCount =
                 Cardinality({i \in DOMAIN done : done[i].outcome = "ok"})
           /\ \A i \in DOMAIN done :
                 done[i].outcome = "ok" =>
                    /\ callers[done[i].callerId].assigned_to = done[i].employeeId
                    /\ \E j \in DOMAIN log :
                          log[j] = [caller_id |-> done[i].callerId,
                                    employee_id |-> done[i].employeeId,
                                    assigned_by |-> SystemActor, method |-> "auto",
                                    call |-> <<r, i>>]

\* a finished run in which a commit failed on a store error between two
\* commits that succeeded
C9_Witness ==
  \E r \in Runs :
     /\ proc[r].pc = "done"
     /\ \E i, j, k \in DOMAIN proc[r].attempts :
           /\ i < j /\ j < k
           /\ proc[r].attempts[i].outcome = "ok"
           /\ proc[r].attempts[j].outcome = "store"
           /\ proc[r].attempts[k].outcome = "ok"
     /\ proc[r].assignedCount = Len(proc[r].attempts) - 1

\* C10: every assignment of a run goes to one employee, the first idle one
\* in (caller_count ascending, name ascending) order: each call the run has
\* made or is making, and each caller row and log entry it wrote, names the
\* idle employee of its list whose name is least.
C10_FillFirstIdle ==
  \A r \in Runs :
     /\ \A j \in DOMAIN proc[r].attempts :
           proc[r].attempts[j].employeeId = FirstIdleByName(r)
     /\ proc[r].pc \in CallPcs => proc[r].employee_id = FirstIdleByName(r)
     /\ \A c \in DOMAIN callers :
           callers[c].writer[1] = r => callers[c].assigned_to = FirstIdleByName(r)
     /\ \A j \in DOMAIN log :
           log[j].call[1] = r => log[j].employee_id = FirstIdleByName(r)

\* E1 (0 active), E2 (2 active), E3 (0 active), E1 before E3 by name, and 5
\* unassigned callers: the run gave all 5 to E1 and none to E2 or E3
C10_Witness ==
  LET r == proc["run1"]
  IN  /\ r.pc = "done" /\ proc["run2"].pc = "idle"
      /\ Len(r.employees) = 3
      /\ r.employees[1].caller_count = 0
      /\ r.employees[2].caller_count = 0
      /\ r.employees[3].caller_count = 2
      /\ users[r.employees[1].id].name < users[r.employees[2].id].name
      /\ Len(r.unassignedCallers) = 5
      /\ r.assignedCount = 5
      /\ Cardinality({c \in DOMAIN callers :
                        callers[c].writer[1] = "run1"
                        /\ callers[c].assigned_to = r.employees[1].id}) = 5
      /\ CallerCount(callers, r.employees[2].id) = 0
      /\ CallerCount(callers, r.employees[3].id) = 2

\* C11: one run of performAutoAssignment commits at most BatchLimit
\* assignments in total, whatever the number of idle employees and of
\* unassigned callers: it makes at most BatchLimit calls, counts at most
\* BatchLimit, and at most BatchLimit caller rows and log entries are its own.
C11_RunCommitsAtMostBatch ==
  \A r \in Runs :
     /\ Len(proc[r].attempts) <= BatchLimit
     /\ proc[r].assignedCount <= BatchLimit
     /\ Cardinality({c \in DOMAIN callers : callers[c].writer[1] = r}) <= BatchLimit
     /\ Cardinality({i \in DOMAIN log : log[i].call[1] = r}) <= BatchLimit

\* a finished run that found two or more idle employees and more than
\* BatchLimit unassigned callers, and committed BatchLimit assignments
C11_Witness ==
  /\ proc["run1"].pc = "done" /\ proc["run2"].pc = "idle"
  /\ Cardinality(IdleAt("run1")) >= 2
  /\ Cardinality(Backlog0) > BatchLimit
  /\ proc["run1"].assignedCount = BatchLimit
  /\ Cardinality({i \in DOMAIN log : log[i].call[1] = "run1"}) = BatchLimit

\* the existence read of p's current assignToEmployee call returns (the store
\* does not fail) in this step
FindByIdReturns(p) ==
  /\ proc[p].pc = "findById"
  /\ proc'[p] # proc[p]
  /\ faults' = faults

\* the outcome of the call p has just ended in this step
CallEnded(p, outcome) ==
  /\ Len(proc'[p].attempts) = Len(proc[p].attempts) + 1
  /\ proc'[p].attempts[Len(proc'[p].attempts)].outcome = outcome
  /\ proc'[p].assignedCount = proc[p].assignedCount

\* C12: assignToEmployee (manual or auto) on a caller whose assigned_to is
\* non-null when the call reads it fails with the already-assigned conflict:
\* the call ends at its existence read, and no caller row (so neither
\* assigned_to nor assigned_at) and no log entry is changed or added.
C12_AlreadyAssignedConflict ==
  [][\A p \in Procs :
       (/\ FindByIdReturns(p)
        /\ CurCaller(proc[p]) \in DOMAIN callers
        /\ callers[CurCaller(proc[p])].assigned_to # NULL)
         => /\ CallEnded(p, "conflict")
            /\ callers' = callers
            /\ log' = log]_vars

\* the automatic run assigned a caller and finished; afterwards the admin's
\* manual assignment of that caller ended in the conflict, and the caller
\* still has the run's employee, timestamp and single log entry
C12_Witness ==
  /\ proc["run1"].pc = "done"
  /\ \E i \in DOMAIN proc["admin"].attempts :
        LET a == proc["admin"].attempts[i]
        IN  /\ a.outcome = "conflict"
            /\ a.callerId \in DOMAIN callers
            /\ callers[a.callerId].writer[1] = "run1"
            /\ a.pre.assigned_to = callers[a.callerId].assigned_to
            /\ a.pre.assigned_at = callers[a.callerId].assigned_at
            /\ a.employeeId # callers[a.callerId].assigned_to
            /\ Cardinality({j \in DOMAIN log : log[j].caller_id = a.callerId}) = 1

\* C13: assignToEmployee on a caller id that has no row fails with the
\* not-found error at its existence read, and changes no caller row and no
\* log entry.
C13_MissingCallerNotFound ==
  [][\A p \in Procs :
       (FindByIdReturns(p) /\ CurCaller(proc[p]) \notin DOMAIN callers)
         => /\ CallEnded(p, "notFound")
            /\ callers' = callers
            /\ log' = log]_vars

\* a manual assignment of an id that has no row ended in not-found at the
\* existence read
C13_Witness ==
  \E i \in DOMAIN proc["admin"].attempts :
     LET a == proc["admin"].attempts[i]
     IN  /\ a.outcome = "notFound"
         /\ a.at = "findById"
         /\ a.callerId \notin DOMAIN callers
         /\ \A j \in DOMAIN log : log[j].caller_id # a.callerId

\* C14: every log entry an automatic run wrote has method 'auto' and
\* assigned_by = SystemActor; every log entry a manual assignment wrote has
\* method 'manual' and assigned_by = the id of the admin who made the request
\* (a super admin); no other (method, actor) pair is written.
C14_MethodAndActor ==
  \A i \in DOMAIN log :
     log[i].call # NoCall =>
        /\ log[i].call[1] \in Runs =>
              log[i].method = "auto" /\ log[i].assigned_by = SystemActor
        /\ log[i].call[1] \in Manuals =>
              /\ log[i].method = "manual"
              /\ log[i].assigned_by = proc[log[i].call[1]].assignedBy
              /\ log[i].assigned_by \in AdminIds
        /\ \/ log[i].method = "auto" /\ log[i].assigned_by = SystemActor
           \/ log[i].method = "manual" /\ log[i].assigned_by \in AdminIds

\* the log holds an entry of the automatic run and an entry of a manual
\* assignment made by the admin who is not the system actor
C14_Witness ==
  /\ \E i \in DOMAIN log : log[i].call[1] = "run1"
  /\ \E i \in DOMAIN log :
        /\ log[i].call[1] = "admin"
        /\ log[i].assigned_by # SystemActor
        /\ log[i].assigned_by = proc["admin"].assignedBy

\* no caller row and no log entry has been written since the initial state
TablesUntouched ==
  /\ \A c \in DOMAIN callers : callers[c].writer = NoCall /\ callers[c].assigned_at <= 1
  /\ \A i \in DOMAIN log : log[i].call = NoCall
  /\ now = 2

\* C18: when the employee list or the unassigned-caller list a run reads is
\* empty, the run returns at once: it completes without error (by the return
\* that follows the empty list), has made no assignToEmployee call, and
\* callers and log are as they were.
C18_EmptyListsNoOp ==
  /\ \A r \in Runs :
        proc[r].result \in {"noEmployees", "noCallers"} =>
           /\ proc[r].pc = "done"
           /\ proc[r].attempts = <<>>
           /\ proc[r].callersToAssign = <<>>
           /\ NoNewAssignments(r)
  /\ LET r     == proc["run1"]
         staff == {u \in DOMAIN users : users[u].role_id = EmployeeRoleId}
     IN  (/\ r.pc = "done" /\ proc["run2"].pc = "idle"
          /\ r.result # "error"
          /\ staff = {} \/ Backlog0 = {})
           => /\ r.result = IF staff = {} THEN "noEmployees" ELSE "noCallers"
              /\ r.attempts = <<>>
              /\ staff = {} => r.unassignedCallers = <<>>
              /\ TablesUntouched

\* a run that found no employee while callers were waiting, and returned
C18_Witness ==
  /\ proc["run1"].pc = "done" /\ proc["run2"].pc = "idle"
  /\ proc["run1"].result = "noEmployees"
  /\ Cardinality(Backlog0) >= 2
  /\ TablesUntouched

\* C15: the assignment log is append-only: in every step of every operation
\* (assignToEmployee, markAsCalled, Caller.update, Caller.delete, User.delete)
\* each existing log entry is still in the log, unchanged, unless its own
\* caller was deleted in that step.
C15_LogAppendOnly ==
  [][\A i \in DOMAIN log :
       \/ \E j \in DOMAIN log' : log'[j] = log[i]
       \/ /\ log[i].caller_id \in DOMAIN callers
          /\ log[i].caller_id \notin DOMAIN callers']_vars

\* C16: an assigned, active caller is never silently returned to the
\* unassigned pool: no operation takes a caller that has assigned_to non-null
\* and status active to assigned_to = null with status = active (the model
\* has no explicit reassignment operation, as the code has none).
C16_NeverSilentlyFreed ==
  [][\A c \in DOMAIN callers :
       (/\ callers[c].assigned_to # NULL
        /\ callers[c].status = "active"
        /\ c \in DOMAIN callers')
         => ~(callers'[c].assigned_to = NULL /\ callers'[c].status = "active")]_vars

\* C17: at the moment an 'auto' commit sets a caller's assigned_to (the
\* UPDATE of a run's assignToEmployee call changes the row), that caller has
\* status = active and had assigned_to = null, whatever markAsCalled,
\* Caller.update or a manual assignment did after the run read its list.
C17_AutoAssignsOnlyEligible ==
  [][\A r \in Runs :
       (/\ proc[r].pc = "update"
        /\ proc'[r].pc = "insert"
        /\ CurCaller(proc[r]) \in DOMAIN callers)
         => /\ callers[CurCaller(proc[r])].status = "active"
            /\ callers[CurCaller(proc[r])].assigned_to = NULL]_vars

\* the job whose body invocation p runs
JobOf(p) == IF p \in Runs THEN "autoAssignment" ELSE "healthCheck"

\* an exception was raised in the job body p (a store read, a commit or the
\* connection test failed)
Failed(p) ==
  \/ proc[p].result = "error"
  \/ \E i \in DOMAIN proc[p].attempts : proc[p].attempts[i].outcome = "store"

\* after a failure in its body the job, while registered, has its timer armed,
\* and its next firing can happen
C19_TimerStaysArmed ==
  /\ \A p \in Runs \cup Probes :
        (Failed(p) /\ JobOf(p) \in DOMAIN jobs) => tasks[jobs[JobOf(p)]].running
  /\ (/\ Failed("run1") /\ proc["run2"].pc = "idle"
      /\ "autoAssignment" \in DOMAIN jobs)
       => ENABLED CronFiresAutoAssignment(jobs["autoAssignment"], "run2")

\* no step of a job body, a failing one included, touches the scheduler
C19_BodyLeavesScheduler ==
  \A p \in Runs \cup Probes :
     (proc[p].pc # "idle" /\ proc'[p] # proc[p])
       => UNCHANGED <<jobs, isRunning, tasks>>

\* C19: an exception raised inside a scheduled job body (performAutoAssignment
\* or performHealthCheck) is caught: the body goes on or returns, no step of
\* it removes or stops the job's timer or changes isRunning; and after a
\* failed firing, unless the job is stopped by a call, its next firing occurs.
C19_FailureKeepsSchedule ==
  /\ []C19_TimerStaysArmed
  /\ [][C19_BodyLeavesScheduler]_vars
  /\ Failed("run1") ~> (proc["run2"].pc # "idle" \/ "autoAssignment" \notin DOMAIN jobs)

\* the first firing failed on a store error while the scheduler was running;
\* the timers stayed armed and the next firing started a second run, which
\* has completed
C19_Witness ==
  /\ isRunning
  /\ calls = <<[op |-> "init", at |-> 2]>>
  /\ proc["run1"].result = "error"
  /\ \A t \in DOMAIN tasks : tasks[t].running
  /\ proc["run2"].pc = "done"
  /\ proc["run2"].result = "completed"
  /\ proc["run2"].assignedCount = 1

\* the job body p is in flight
InFlight(p) == proc[p].pc \notin {"idle", "done"}

\* the scheduler is stopped: no job registered, no timer armed, no firing possible
Stopped ==
  /\ ~isRunning
  /\ jobs = EmptyMap
  /\ \A t \in DOMAIN tasks : ~tasks[t].running
  /\ ~ENABLED (\E t \in DOMAIN tasks : \E r \in Runs : CronFiresAutoAssignment(t, r))
  /\ ~ENABLED (\E t \in DOMAIN tasks : \E h \in Probes : CronFiresHealthCheck(t, h))

\* from stopAllJobs until the next init the scheduler is stopped, and a job
\* body in flight can take its next step whatever the scheduler's state
C20_StoppedUntilInit ==
  /\ (~isRunning \/ (calls # <<>> /\ calls[Len(calls)].op = "stopAllJobs")) => Stopped
  /\ \A p \in Runs \cup Probes : InFlight(p) => ENABLED BodyStep(p)

\* a call of stopAllJobs ends with the scheduler stopped, changes no job body,
\* and changes nothing of the scheduler when it was stopped already
C20_StopStep ==
  (Len(calls') = Len(calls) + 1 /\ calls'[Len(calls')].op = "stopAllJobs")
    => /\ ~isRunning' /\ jobs' = EmptyMap
       /\ \A t \in DOMAIN tasks' : ~tasks'[t].running
       /\ proc' = proc
       /\ (~isRunning /\ jobs = EmptyMap) => UNCHANGED <<jobs, isRunning, tasks>>

\* C20: stopAllJobs disarms every timer and is idempotent: after it no
\* scheduled invocation of any job starts until init is called again, an
\* invocation in flight still runs to completion, and a second stopAllJobs
\* leaves the scheduler (jobs empty, isRunning false, timers) unchanged.
C20_StopAllJobs ==
  /\ []C20_StoppedUntilInit
  /\ [][C20_StopStep]_vars
  /\ \A p \in Runs \cup Probes : InFlight(p) ~> proc[p].pc = "done"

\* init, a firing, then stopAllJobs twice while the run was in flight: the
\* run's commit came after the first stop, the run completed, and no timer
\* is armed
C20_Witness ==
  /\ Len(calls) = 3
  /\ calls[1].op = "init"
  /\ calls[2] = [op |-> "stopAllJobs", at |-> 2]
  /\ calls[3].op = "stopAllJobs"
  /\ Stopped
  /\ proc["run1"].pc = "done"
  /\ proc["run1"].assignedCount = 1
  /\ callers[1].writer[1] = "run1"
  /\ callers[1].assigned_at = 2

\* the armed node-cron tasks of job n
LiveTimers(n) == {t \in DOMAIN tasks : tasks[t].name = n /\ tasks[t].running}

\* the operations called on the manager so far
CallOps == {calls[i].op : i \in DOMAIN calls}

\* C21: init is a safe no-op when the scheduler is already running: no job
\* ever has two live timers, and as long as init has been called and neither
\* stopAllJobs (alone or inside restart) nor updateSchedule has, exactly one
\* timer has ever been created for each of autoAssignment and healthCheck,
\* however many times init was called.
C21_InitArmsOnce ==
  /\ \A n \in JobNames : Cardinality(LiveTimers(n)) <= 1
  /\ ( /\ "init" \in CallOps
       /\ CallOps \cap {"stopAllJobs", "restart", "updateSchedule"} = {} )
     => \A n \in JobNames :
          Cardinality({t \in DOMAIN tasks : tasks[t].name = n}) = 1

\* init has been called three times in a row and each job has its one timer
C21_Witness ==
  /\ Len(calls) = MaxCalls
  /\ \A i \in DOMAIN calls : calls[i].op = "init"
  /\ isRunning
  /\ \A n \in JobNames : Cardinality(LiveTimers(n)) = 1

\* a step of the trigger g: its call, a step of the body it awaits, its return
TriggerStep(g) ==
  \/ proc'[g] # proc[g]
  \/ /\ proc[g].pc = "awaitBody"
     /\ proc'[proc[g].awaits] # proc[proc[g].awaits]

\* C22: triggerAutoAssignment and triggerHealthCheck leave the scheduler
\* state unchanged: no step of a trigger (the call, the steps of the job body
\* it awaits, the return) changes the jobs map, any timer or isRunning,
\* whether the scheduler is running or stopped; and a trigger that has
\* returned awaited a job body that has completed.
C22_TriggerLeavesScheduler ==
  /\ [](\A g \in Triggers :
          proc[g].pc = "done" => proc[proc[g].awaits].pc = "done")
  /\ [][\A g \in Triggers :
          TriggerStep(g) => UNCHANGED <<jobs, isRunning, tasks>>]_vars

\* a trigger of auto-assignment has returned while the scheduler was running,
\* and the job's own timer has fired since
C22_Witness ==
  /\ proc["trigger"].pc = "done"
  /\ proc["trigger"].method = "triggerAutoAssignment"
  /\ isRunning
  /\ LiveTimers("autoAssignment") # {}
  /\ proc["run1"].pc # "idle"

\* C23: a manual trigger of auto-assignment that has returned reports failure
\* (success = false) exactly when the run it triggered failed on a store
\* failure, and success when the run completed.
C23_TriggerReportsFailure ==
  \A g \in Triggers :
    (proc[g].pc = "done" /\ proc[g].method = "triggerAutoAssignment")
    => (proc[g].result = "successFalse" <=> proc[proc[g].awaits].result = "error")

\* job n is in the jobs map and its task is armed
Armed(n) == n \in DOMAIN jobs /\ tasks[jobs[n]].running

\* C27: in every reachable scheduler state, isRunning is true if and only if
\* both jobs autoAssignment and healthCheck are registered in the jobs map
\* and armed.
C27_RunningIffBothArmed ==
  isRunning <=> \A n \in JobNames : Armed(n)

\* the positions of the employees that were idle in the list the run read
IdleInSnapshot(r) ==
  {i \in DOMAIN proc[r].employees : proc[r].employees[i].caller_count = 0}

\* C24: eligibility is decided from the employee list read at the start of
\* the run and never re-read: once read, the list stays as it was until the
\* run ends, and whenever the run is committing a caller its target is the
\* first employee that was idle in that list, whatever load that employee
\* or any other has in the store at that moment.
C24_SnapshotDecides ==
  /\ [](\A r \in Runs :
          proc[r].pc \in CallPcs =>
            /\ proc[r].ei \in IdleInSnapshot(r)
            /\ \A i \in IdleInSnapshot(r) : proc[r].ei <= i
            /\ proc[r].employee_id = proc[r].employees[proc[r].ei].id)
  /\ [][\A r \in Runs :
          (proc[r].pc \in CallPcs \cup {"getUnassigned"} /\ proc'[r].pc # "done")
          => proc'[r].employees = proc[r].employees]_vars

\* the run is committing to employee 3, idle in its list, after a manual
\* assignment gave employee 3 an active caller; employee 2, loaded in the
\* list, has become idle since and is not the target
C24_Witness ==
  LET r == proc["run1"]
  IN  /\ r.pc \in CallPcs
      /\ r.employee_id = 3
      /\ CallerCount(callers, 3) > 0
      /\ \E i \in DOMAIN r.employees :
           r.employees[i].id = 2 /\ r.employees[i].caller_count > 0
      /\ CallerCount(callers, 2) = 0

\* the positions of caller c's log entries
LogOf(c) == {i \in DOMAIN log : log[i].caller_id = c}

\* C25: the assignment log agrees with the current assignment after any
\* interleaving of automatic and manual assignments: once the invocations
\* have ended, none of them having met a store error, every caller with a
\* non-null assigned_to has a log entry, and its most recently appended one
\* names that employee.
C25_LogAgreesWithAssignment ==
  ( /\ \A p \in {"run1", "admin"} : proc[p].pc \in {"idle", "done"}
    /\ faults = MaxFaults )
  => \A c \in DOMAIN callers :
       callers[c].assigned_to # NULL =>
         /\ LogOf(c) # {}
         /\ \A i \in LogOf(c) :
              (\A j \in LogOf(c) : j <= i) => log[i].employee_id = callers[c].assigned_to

\* C26: automatic assignment alone never leaves an employee holding more
\* than 100 active callers, also when two runs overlap.
C26_AtMostBatchPerEmployee ==
  \A e \in Employees : CallerCount(callers, e) <= BatchLimit

\* C28: in every reachable state, a caller's non-null assigned_to references
\* an existing user that holds the employee role (role_id = 2).
C28_AssigneeIsEmployee ==
  \A c \in DOMAIN callers :
    callers[c].assigned_to # NULL =>
      /\ callers[c].assigned_to \in DOMAIN users
      /\ users[callers[c].assigned_to].role_id = EmployeeRoleId

\* C29: in every reachable state, a caller with status = inactive has
\* assigned_to = null.
C29_InactiveIsUnassigned ==
  \A c \in DOMAIN callers :
    callers[c].status = "inactive" => callers[c].assigned_to = NULL

\* the callers getUnassignedCallers would select now
UnassignedActive ==
  {c \in DOMAIN callers : callers[c].assigned_to = NULL /\ callers[c].status = "active"}

\* c is the oldest unassigned active caller
Oldest(c) ==
  /\ c \in UnassignedActive
  /\ \A d \in UnassignedActive : callers[c].created_at <= callers[d].created_at

\* run r is entered and has not read anything yet
RunStarts(r) == proc[r].pc = "getEmployees"

\* run r has ended, and unless it met a store error it has assigned caller c
ServedCaller(r, c) ==
  /\ proc[r].pc = "done"
  /\ FaultFree(r) =>
       \E i \in DOMAIN proc[r].attempts :
          proc[r].attempts[i].callerId = c /\ proc[r].attempts[i].outcome = "ok"

\* run r has ended, and unless it met a store error it has assigned a caller
\* to employee e
ServedEmployee(r, e) ==
  /\ proc[r].pc = "done"
  /\ FaultFree(r) =>
       \E i \in DOMAIN proc[r].attempts :
          proc[r].attempts[i].employeeId = e /\ proc[r].attempts[i].outcome = "ok"

\* employee e's markCallerAsCalled has completed and e holds no active caller
MarkedAllCalled(e) ==
  /\ proc["employee"].pc = "done"
  /\ proc["employee"].method = "markCalled"
  /\ proc["employee"].result = "completed"
  /\ proc["employee"].employee_id = e
  /\ CallerCount(callers, e) = 0

\* e is the first employee of the list a read would return now
FirstInOrder(e) == GetEmployeesWithCallerCount(users, callers)[1].id = e

\* the first half of C30: the timer of the running scheduler fires, and a run
\* that starts with an idle employee and an unassigned active caller ends
\* with the oldest such caller assigned
OldestIsServed ==
  /\ (isRunning /\ proc["run1"].pc = "idle") ~> (proc["run1"].pc # "idle")
  /\ \A r \in Runs : \A c \in 1..ProgCallers :
        (RunStarts(r) /\ Oldest(c) /\ \E e \in Employees : CallerCount(callers, e) = 0)
        ~> ServedCaller(r, c)

====
